---- MODULE Spec2Model ----
(***************************************************************************)
(* Model of utils/ocr_engine.py: the extraction dispatcher                 *)
(* (extract_text_from_file) and the extractors it routes to.               *)
(*                                                                         *)
(* A Python str is a sequence of one-character strings, so that strip(),   *)
(* lower(), join() and the f-strings are computed, not assumed.  An        *)
(* Optional[str] is a sequence of zero (None) or one (the string) strings. *)
(* A call that either returns or raises is an outcome record               *)
(*   [kind |-> "return" | "raise", val |-> <text or str(e)>].              *)
(***************************************************************************)
EXTENDS Integers, Sequences, FiniteSets, TLC

VARIABLES
    path,       \* argument `path` of extract_text_from_file
    filename,   \* argument `filename` (Optional[str])
    pc,         \* position of the call
    ext,        \* local `ext` of extract_text_from_file
    route,      \* the extractor the if/elif chain selected ("" before dispatch)
    pages,      \* PDF: the behaviour of each page enumerated so far
    all_text,   \* PDF: local `all_text` of extract_from_pdf
    renders,    \* PDF: page numbers for which page.get_pixmap was called
    ocrs,       \* PDF: page numbers for which pytesseract.image_to_string was called
    slots,      \* PDF: what each page's iteration appended to all_text
    failures,   \* the kinds of failure that have occurred in the call
    input,      \* what the routed extractor found in the file
    out_lines,  \* local list the extractor joins (out_lines / paragraphs)
    ret,        \* outcome of the routed extractor, as seen by the dispatcher
    result      \* outcome of extract_text_from_file, as seen by its caller

vars == <<path, filename, pc, ext, route, pages, all_text, renders, ocrs,
          slots, failures, input, out_lines, ret, result>>

(***************************************************************************)
(* Bounds of the model.                                                    *)
(***************************************************************************)
MaxPages == 3     \* pages of a PDF
MaxParas == 3     \* paragraphs of a word document
MaxBytes == 3     \* bytes of a text file
MaxSheets == 2    \* worksheets of a workbook
MaxRows == 3      \* rows of a workbook, all worksheets together
MaxSlides == 2    \* slides of a presentation
MaxShapes == 3    \* shapes of a presentation, all slides together

(***************************************************************************)
(* Python str operations.                                                  *)
(***************************************************************************)
Whitespace == {" ", "\n", "\t", "\r"}

RECURSIVE LStrip(_)
LStrip(s) ==
    IF s # <<>> /\ Head(s) \in Whitespace THEN LStrip(Tail(s)) ELSE s

RECURSIVE RStrip(_)
RStrip(s) ==
    IF s # <<>> /\ s[Len(s)] \in Whitespace
    THEN RStrip(SubSeq(s, 1, Len(s) - 1))
    ELSE s

\* str.strip()
Strip(s) == LStrip(RStrip(s))

\* str.lstrip(".")
RECURSIVE LStripDots(_)
LStripDots(s) ==
    IF s # <<>> /\ Head(s) = "." THEN LStripDots(Tail(s)) ELSE s

UpperToLower ==
    [c \in {"A","B","C","D","E","F","G","H","I","J","K","L","M","N","O","P",
            "Q","R","S","T","U","V","W","X","Y","Z"} |->
        CASE c = "A" -> "a" [] c = "B" -> "b" [] c = "C" -> "c" [] c = "D" -> "d"
          [] c = "E" -> "e" [] c = "F" -> "f" [] c = "G" -> "g" [] c = "H" -> "h"
          [] c = "I" -> "i" [] c = "J" -> "j" [] c = "K" -> "k" [] c = "L" -> "l"
          [] c = "M" -> "m" [] c = "N" -> "n" [] c = "O" -> "o" [] c = "P" -> "p"
          [] c = "Q" -> "q" [] c = "R" -> "r" [] c = "S" -> "s" [] c = "T" -> "t"
          [] c = "U" -> "u" [] c = "V" -> "v" [] c = "W" -> "w" [] c = "X" -> "x"
          [] c = "Y" -> "y" [] c = "Z" -> "z"]

\* str.lower()
Lower(s) ==
    [i \in 1..Len(s) |->
        IF s[i] \in DOMAIN UpperToLower THEN UpperToLower[s[i]] ELSE s[i]]

\* sep.join(parts)
RECURSIVE Join(_, _)
Join(parts, sep) ==
    IF parts = <<>> THEN <<>>
    ELSE IF Len(parts) = 1 THEN parts[1]
    ELSE parts[1] \o sep \o Join(Tail(parts), sep)

\* str(n) for an int n >= 0
Digit(d) ==
    CASE d = 0 -> "0" [] d = 1 -> "1" [] d = 2 -> "2" [] d = 3 -> "3"
      [] d = 4 -> "4" [] d = 5 -> "5" [] d = 6 -> "6" [] d = 7 -> "7"
      [] d = 8 -> "8" [] d = 9 -> "9"

RECURSIVE IntToStr(_)
IntToStr(n) ==
    IF n < 10 THEN <<Digit(n)>> ELSE IntToStr(n \div 10) \o <<Digit(n % 10)>>

\* index of the last occurrence of c in s, 0 when there is none (1-based)
RECURSIVE RFind(_, _)
RFind(s, c) ==
    IF s = <<>> THEN 0
    ELSE IF s[Len(s)] = c THEN Len(s)
    ELSE RFind(SubSeq(s, 1, Len(s) - 1), c)

(***************************************************************************)
(* pathlib: Path(src).name and Path(src).suffix (POSIX flavour).           *)
(***************************************************************************)
\* the components of src between "/", empty and "." components dropped
RECURSIVE PathParts(_, _, _)
PathParts(s, cur, acc) ==
    LET keep == IF cur = <<>> \/ cur = <<".">> THEN acc ELSE Append(acc, cur)
    IN  IF s = <<>> THEN keep
        ELSE IF Head(s) = "/" THEN PathParts(Tail(s), <<>>, keep)
        ELSE PathParts(Tail(s), Append(cur, Head(s)), acc)

PathName(src) ==
    LET parts == PathParts(src, <<>>, <<>>)
    IN  IF parts = <<>> THEN <<>> ELSE parts[Len(parts)]

PathSuffix(src) ==
    LET name == PathName(src)
        i == RFind(name, ".")
    IN  IF 1 < i /\ i < Len(name) THEN SubSeq(name, i, Len(name)) ELSE <<>>

(***************************************************************************)
(* Outcomes of calls, and the messages of the exceptions the libraries     *)
(* raise (str(e)); one message per call site.                              *)
(***************************************************************************)
Return(v) == [kind |-> "return", val |-> v]
Raise(cause) == [kind |-> "raise", val |-> cause]

OpenCause == <<"E","o">>
TextCause == <<"E","t">>
RenderCause == <<"E","r">>
DecodeCause == <<"E","d">>
OcrCause == <<"E","c">>
EnumCause == <<"E","e">>
CloseCause == <<"E","x">>

(***************************************************************************)
(* Inputs of extract_text_from_file.                                       *)
(***************************************************************************)
None == <<>>
Some(s) == <<s>>

Paths == { <<"/","t","/","k","3">>, <<"/","t","/","u",".","p","d","f">> }

Names ==
    { <<"r",".","p","d","f">>, <<"r",".","P","D","F">>,
      <<"d","/","r",".","P","d","f","/">>,
      <<"a",".","j","p","g">>, <<"a",".","J","P","E","G">>,
      <<"a",".","p","n","g">>, <<"a",".","b","m","p">>,
      <<"a",".","T","i","f","f">>,
      <<"a",".","d","o","c","x">>, <<"a",".","D","O","C">>,
      <<"a",".","t","x","t">>,
      <<"a",".","x","l","s","x">>, <<"a",".","X","L","S">>,
      <<"a",".","p","p","t","x">>,
      <<"a",".","x","y","z">>, <<"a",".","X","Y","Z">>,
      <<"n">>, <<".","p","d","f">>, <<"x",".">>,
      <<"a",".","p","d","f","/","b">>,
      <<"a",".","t","a","r",".","g","z">> }

Filenames == {None, Some(<<>>)} \cup {Some(n) : n \in Names}

(***************************************************************************)
(* extract_text_from_file: the classification and the f-strings.           *)
(***************************************************************************)
\* src = filename if filename else path
Src(p, f) == IF f # None /\ f[1] # <<>> THEN f[1] ELSE p

\* ext = Path(src).suffix.lower().lstrip(".")
\* faulty variant of Ext: lower() forgotten
ExtKeepsCase(src) == LStripDots(PathSuffix(src))
Ext(src) == LStripDots(Lower(PathSuffix(src)))

\* the if/elif chain over ext
RouteOf(e) ==
    IF e = <<"p","d","f">> THEN "pdf"
    ELSE IF e \in { <<"j","p","g">>, <<"j","p","e","g">>, <<"p","n","g">>,
                    <<"b","m","p">>, <<"t","i","f","f">> } THEN "image"
    ELSE IF e \in { <<"d","o","c","x">>, <<"d","o","c">> } THEN "word"
    ELSE IF e = <<"t","x","t">> THEN "text"
    ELSE IF e \in { <<"x","l","s","x">>, <<"x","l","s">> } THEN "spreadsheet"
    ELSE IF e = <<"p","p","t","x">> THEN "presentation"
    ELSE "unknown"

\* f"[Unsupported file type: .{ext}]"
\* faulty variant of UnsupportedMessage: the "." forgotten
UnsupportedMessageNoDot(e) ==
    <<"[","U","n","s","u","p","p","o","r","t","e","d"," ","f","i","l","e"," ",
      "t","y","p","e",":"," ">> \o e \o <<"]">>
UnsupportedMessage(e) ==
    <<"[","U","n","s","u","p","p","o","r","t","e","d"," ","f","i","l","e"," ",
      "t","y","p","e",":"," ",".">> \o e \o <<"]">>

\* f"[Error reading {filename or path}: {str(e)}]"
ErrorReadingMessage(p, f, cause) ==
    <<"[","E","r","r","o","r"," ","r","e","a","d","i","n","g"," ">>
    \o (IF f # None /\ f[1] # <<>> THEN f[1] ELSE p)
    \o <<":"," ">> \o cause \o <<"]">>

\* the try/except around the routed call: what the caller of
\* extract_text_from_file gets for an extractor outcome r
\* faulty variant of DispatcherOutcome: no except around the routed call
DispatcherPropagates(p, f, r) == r
DispatcherOutcome(p, f, r) ==
    IF r.kind = "return" THEN r
    ELSE Return(ErrorReadingMessage(p, f, r.val))

(***************************************************************************)
(* extract_from_pdf.                                                       *)
(***************************************************************************)
\* f"[PDF open error: {e}]"
PdfOpenErrorMessage(cause) ==
    <<"[","P","D","F"," ","o","p","e","n"," ","e","r","r","o","r",":"," ">>
    \o cause \o <<"]">>

\* f"[Error on page {page_index+1}: {e}]"
\* faulty variant of PageErrorMessage: page_index instead of page_index+1
PageErrorMessageZeroBased(page_index, cause) ==
    <<"[","E","r","r","o","r"," ","o","n"," ","p","a","g","e"," ">>
    \o IntToStr(page_index) \o <<":"," ">> \o cause \o <<"]">>
PageErrorMessage(page_index, cause) ==
    <<"[","E","r","r","o","r"," ","o","n"," ","p","a","g","e"," ">>
    \o IntToStr(page_index + 1) \o <<":"," ">> \o cause \o <<"]">>

\* f"[Page {page_index+1} OCR]\n{ocr_text.strip()}"
\* faulty variant of PageOcrFragment: page_index instead of page_index+1
PageOcrFragmentZeroBased(page_index, ocr_text) ==
    <<"[","P","a","g","e"," ">> \o IntToStr(page_index)
    \o <<" ","O","C","R","]","\n">> \o Strip(ocr_text)
PageOcrFragment(page_index, ocr_text) ==
    <<"[","P","a","g","e"," ">> \o IntToStr(page_index + 1)
    \o <<" ","O","C","R","]","\n">> \o Strip(ocr_text)

\* What a page does when asked: get_text, get_pixmap/tobytes, Image.open/
\* convert, image_to_string each return or raise.
Page(text, pix, img, ocr) == [text |-> text, pix |-> pix, img |-> img, ocr |-> ocr]

Ok == Return(<<>>)

PageBehaviours ==
    { Page(Return(<<"a","b">>), Ok, Ok, Return(<<"q">>)),
      Page(Return(<<" ","c","\n">>), Ok, Ok, Return(<<>>)),
      Page(Raise(TextCause), Ok, Ok, Return(<<"q">>)),
      Page(Return(<<>>), Raise(RenderCause), Ok, Return(<<"q">>)),
      Page(Return(<<"\n">>), Ok, Raise(DecodeCause), Return(<<"q">>)),
      Page(Return(<<>>), Ok, Ok, Raise(OcrCause)),
      Page(Return(<<>>), Ok, Ok, Return(<<"x","\n">>)),
      Page(Return(<<" ","\n">>), Ok, Ok, Return(<<" ","y"," ","z">>)),
      Page(Return(<<>>), Ok, Ok, Return(<<"\n">>)) }

\* The body of the for loop for one page: the fragments it appends to
\* all_text, and whether it rendered the page and ran OCR on it.
PageStep(frags, rendered, ocred, failed) ==
    [frags |-> frags, rendered |-> rendered, ocred |-> ocred, failed |-> failed]

\* faulty variant of ProcessPage: the `continue` after the text forgotten
ProcessPageNoContinue(p, page_index) ==
    IF p.text.kind = "raise"
    THEN PageStep(<<PageErrorMessage(page_index, p.text.val)>>, FALSE, FALSE, TRUE)
    ELSE LET first == IF Strip(p.text.val) # <<>> THEN <<Strip(p.text.val)>>
                      ELSE <<>>
         IN  IF p.pix.kind = "raise"
             THEN PageStep(first \o <<PageErrorMessage(page_index, p.pix.val)>>,
                           TRUE, FALSE, TRUE)
             ELSE IF p.img.kind = "raise"
             THEN PageStep(first \o <<PageErrorMessage(page_index, p.img.val)>>,
                           TRUE, FALSE, TRUE)
             ELSE IF p.ocr.kind = "raise"
             THEN PageStep(first \o <<PageErrorMessage(page_index, p.ocr.val)>>,
                           TRUE, TRUE, TRUE)
             ELSE IF Strip(p.ocr.val) # <<>>
             THEN PageStep(first \o <<PageOcrFragment(page_index, p.ocr.val)>>,
                           TRUE, TRUE, FALSE)
             ELSE PageStep(first, TRUE, TRUE, FALSE)
ProcessPage(p, page_index) ==
    IF p.text.kind = "raise"
    THEN PageStep(<<PageErrorMessage(page_index, p.text.val)>>, FALSE, FALSE, TRUE)
    ELSE IF Strip(p.text.val) # <<>>
    THEN PageStep(<<Strip(p.text.val)>>, FALSE, FALSE, FALSE)
    ELSE IF p.pix.kind = "raise"
    THEN PageStep(<<PageErrorMessage(page_index, p.pix.val)>>, TRUE, FALSE, TRUE)
    ELSE IF p.img.kind = "raise"
    THEN PageStep(<<PageErrorMessage(page_index, p.img.val)>>, TRUE, FALSE, TRUE)
    ELSE IF p.ocr.kind = "raise"
    THEN PageStep(<<PageErrorMessage(page_index, p.ocr.val)>>, TRUE, TRUE, TRUE)
    ELSE IF Strip(p.ocr.val) # <<>>
    THEN PageStep(<<PageOcrFragment(page_index, p.ocr.val)>>, TRUE, TRUE, FALSE)
    ELSE PageStep(<<>>, TRUE, TRUE, FALSE)

\* "\n\n".join(all_text).strip()
PdfResult(fragments) == Strip(Join(fragments, <<"\n","\n">>))


(***************************************************************************)
(* extract_from_image, extract_from_docx, extract_from_txt.                *)
(***************************************************************************)
ExtractorErrorMessage(prefix, cause) == prefix \o cause \o <<"]">>

ImageErrorPrefix ==
    <<"[","I","m","a","g","e"," ","O","C","R"," ","e","r","r","o","r",":"," ">>
DocxErrorPrefix ==
    <<"[","D","O","C","X"," ","r","e","a","d"," ","e","r","r","o","r",":"," ">>
TxtErrorPrefix ==
    <<"[","T","X","T"," ","r","e","a","d"," ","e","r","r","o","r",":"," ">>
XlsxErrorPrefix ==
    <<"[","X","L","S","X"," ","r","e","a","d"," ","e","r","r","o","r",":"," ">>
PptxErrorPrefix ==
    <<"[","P","P","T","X"," ","r","e","a","d"," ","e","r","r","o","r",":"," ">>

\* what Image.open / convert / image_to_string do on the file
ImageBehaviours ==
    { Raise(DecodeCause), Raise(OcrCause), Return(<<>>),
      Return(<<" ","x","\n","y","\n">>) }

\* faulty variant of ImageResult: an empty string on failure
ImageResultEmptyOnFailure(o) ==
    IF o.kind = "raise" THEN <<>> ELSE Strip(o.val)
ImageResult(o) ==
    IF o.kind = "raise" THEN ExtractorErrorMessage(ImageErrorPrefix, o.val)
    ELSE Strip(o.val)

\* the text of a paragraph (p.text)
ParaTexts == { <<>>, <<"p">>, <<" ","q"," ">>, <<" ">> }

SeqsUpTo(S, n) == UNION { [1..k -> S] : k \in 0..n }

\* paragraphs = [p.text for p in doc.paragraphs if p.text]
DocxParagraphs(paras) == SelectSeq(paras, LAMBDA t : t # <<>>)

\* "\n".join(lines).strip()
\* faulty variant of LinesResult: joined by blank lines
LinesResultBlankLine(lines) == Strip(Join(lines, <<"\n","\n">>))
LinesResult(lines) == Strip(Join(lines, <<"\n">>))

\* bytes of a text file: "a", " ", "\n" and 0xFF, which no UTF-8 text holds
FileBytes == {97, 32, 10, 255}

Chr(b) == CASE b = 97 -> "a" [] b = 32 -> " " [] b = 10 -> "\n"

\* open(path, "r", encoding="utf-8", errors="ignore").read()
RECURSIVE Decode(_)
Decode(bytes) ==
    IF bytes = <<>> THEN <<>>
    ELSE IF Head(bytes) = 255 THEN Decode(Tail(bytes))
    ELSE <<Chr(Head(bytes))>> \o Decode(Tail(bytes))

(***************************************************************************)
(* extract_from_xlsx.                                                      *)
(***************************************************************************)
\* a cell value: None, a str or an int
NoneCell == [t |-> "none", s |-> <<>>, n |-> 0]
StrCell(s) == [t |-> "str", s |-> s, n |-> 0]
IntCell(n) == [t |-> "int", s |-> <<>>, n |-> n]

\* str(c)
CellStr(c) == IF c.t = "int" THEN IntToStr(c.n) ELSE c.s

Rows ==
    { <<NoneCell, StrCell(<<" ">>), StrCell(<<>>)>>,
      <<StrCell(<<" ","a">>), NoneCell, IntCell(70)>>,
      <<StrCell(<<"b">>), StrCell(<<"c"," ","d"," ">>)>> }

\* cells = [str(c) for c in row if c is not None and str(c).strip() != ""]
RowCells(row) ==
    LET kept == SelectSeq(row, LAMBDA c : c.t # "none" /\ Strip(CellStr(c)) # <<>>)
    IN  [i \in 1..Len(kept) |-> CellStr(kept[i])]

\* if cells: out_lines.append(" ".join(cells))
\* faulty variant of RowLines: `if cells` forgotten
RowLinesAlways(row) == <<Join(RowCells(row), <<" ">>)>>
RowLines(row) ==
    IF RowCells(row) # <<>> THEN <<Join(RowCells(row), <<" ">>)>> ELSE <<>>

(***************************************************************************)
(* extract_from_pptx.                                                      *)
(***************************************************************************)
\* a shape: whether it has a `text` attribute, and the attribute
Shape(has_text, text) == [has_text |-> has_text, text |-> text]

Shapes ==
    { Shape(FALSE, <<>>), Shape(TRUE, <<>>), Shape(TRUE, <<" ">>),
      Shape(TRUE, <<" ","t","\n">>) }

\* if hasattr(shape, "text") and shape.text: out_lines.append(shape.text.strip())
ShapeLines(sh) ==
    IF sh.has_text /\ sh.text # <<>> THEN <<Strip(sh.text)>> ELSE <<>>

\* number of rows (shapes) in all the worksheets (slides) seen so far
RECURSIVE TotalLen(_)
TotalLen(units) ==
    IF units = <<>> THEN 0 ELSE Len(Head(units)) + TotalLen(Tail(units))

(***************************************************************************)
(* The call as a state machine.                                            *)
(***************************************************************************)
Init ==
    /\ path \in Paths
    /\ filename \in Filenames
    /\ pc = "start"
    /\ ext = <<>>
    /\ route = ""
    /\ pages = <<>>
    /\ all_text = <<>>
    /\ renders = {}
    /\ ocrs = {}
    /\ slots = <<>>
    /\ failures = {}
    /\ input = <<>>
    /\ out_lines = <<>>
    /\ ret = Return(<<>>)
    /\ result = Return(<<>>)

\* extract_text_from_file up to the routed call (or the unsupported return)
Dispatch ==
    /\ pc = "start"
    /\ LET e == Ext(Src(path, filename))
           r == RouteOf(e)
       IN  /\ ext' = e
           /\ route' = r
           /\ IF r = "unknown"
              THEN /\ result' = Return(UnsupportedMessage(e))
                   /\ failures' = {"unsupported"}
                   /\ pc' = "done"
              ELSE /\ result' = result
                   /\ failures' = failures
                   /\ pc' = r
    /\ UNCHANGED <<path, filename, pages, all_text, renders, ocrs, slots,
                   input, out_lines, ret>>

\* the routed extractor has returned or raised: the dispatcher's return / except
DispatcherReturn ==
    /\ pc = "returned"
    /\ result' = DispatcherOutcome(path, filename, ret)
    /\ failures' = IF ret.kind = "raise" THEN failures \cup {"dispatcher"}
                   ELSE failures
    /\ pc' = "done"
    /\ UNCHANGED <<path, filename, ext, route, pages, all_text, renders, ocrs,
                   slots, input, out_lines, ret>>

\* doc = fitz.open(path), with its except
PdfOpen ==
    /\ pc = "pdf"
    /\ \E opened \in BOOLEAN :
          IF opened
          THEN /\ pc' = "pdf_loop"
               /\ ret' = ret
               /\ failures' = failures
          ELSE /\ pc' = "returned"
               /\ ret' = Return(PdfOpenErrorMessage(OpenCause))
               /\ failures' = {"open"}
    /\ UNCHANGED <<path, filename, ext, route, pages, all_text, renders, ocrs,
                   slots, input, out_lines, result>>

\* one iteration of `for page_index, page in enumerate(doc)`
PdfPage ==
    /\ pc = "pdf_loop"
    /\ Len(pages) < MaxPages
    /\ \E p \in PageBehaviours :
          LET page_index == Len(pages)
              step == ProcessPage(p, page_index)
          IN  /\ pages' = Append(pages, p)
              /\ all_text' = all_text \o step.frags
              /\ slots' = Append(slots, step.frags)
              /\ renders' = IF step.rendered THEN renders \cup {page_index + 1}
                            ELSE renders
              /\ ocrs' = IF step.ocred THEN ocrs \cup {page_index + 1} ELSE ocrs
              /\ failures' = IF step.failed THEN failures \cup {"page"}
                             ELSE failures
    /\ UNCHANGED <<path, filename, pc, ext, route, input, out_lines, ret, result>>

\* the iterator over doc raises while loading the next page: outside every try
\* of extract_from_pdf
PdfEnumerateRaises ==
    /\ pc = "pdf_loop"
    /\ ret' = Raise(EnumCause)
    /\ failures' = failures \cup {"enumerate"}
    /\ pc' = "returned"
    /\ UNCHANGED <<path, filename, ext, route, pages, all_text, renders, ocrs,
                   slots, input, out_lines, result>>

\* the loop is exhausted: doc.close() and the return
PdfClose ==
    /\ pc = "pdf_loop"
    /\ \E closed \in BOOLEAN :
          IF closed
          THEN /\ ret' = Return(PdfResult(all_text))
               /\ failures' = failures
          ELSE /\ ret' = Raise(CloseCause)
               /\ failures' = failures \cup {"close"}
    /\ pc' = "returned"
    /\ UNCHANGED <<path, filename, ext, route, pages, all_text, renders, ocrs,
                   slots, input, out_lines, result>>

\* extract_from_image
ExtractImage ==
    /\ pc = "image"
    /\ \E o \in ImageBehaviours :
          /\ input' = o
          /\ ret' = Return(ImageResult(o))
          /\ failures' = IF o.kind = "raise" THEN {"extractor"} ELSE failures
    /\ pc' = "returned"
    /\ UNCHANGED <<path, filename, ext, route, pages, all_text, renders, ocrs,
                   slots, out_lines, result>>

\* extract_from_docx
ExtractDocx ==
    /\ pc = "word"
    /\ \/ /\ ret' = Return(ExtractorErrorMessage(DocxErrorPrefix, OpenCause))
          /\ failures' = {"extractor"}
          /\ UNCHANGED <<input, out_lines>>
       \/ \E paras \in SeqsUpTo(ParaTexts, MaxParas) :
             /\ input' = paras
             /\ out_lines' = DocxParagraphs(paras)
             /\ ret' = Return(LinesResult(DocxParagraphs(paras)))
             /\ failures' = failures
    /\ pc' = "returned"
    /\ UNCHANGED <<path, filename, ext, route, pages, all_text, renders, ocrs,
                   slots, result>>

\* extract_from_txt
ExtractTxt ==
    /\ pc = "text"
    /\ \/ /\ ret' = Return(ExtractorErrorMessage(TxtErrorPrefix, OpenCause))
          /\ failures' = {"extractor"}
          /\ input' = input
       \/ \E bytes \in SeqsUpTo(FileBytes, MaxBytes) :
             /\ input' = bytes
             /\ ret' = Return(Strip(Decode(bytes)))
             /\ failures' = failures
    /\ pc' = "returned"
    /\ UNCHANGED <<path, filename, ext, route, pages, all_text, renders, ocrs,
                   slots, out_lines, result>>

\* wb = openpyxl.load_workbook(path, data_only=True); out_lines = []
XlsxOpen ==
    /\ pc = "spreadsheet"
    /\ pc' = "xlsx_loop"
    /\ input' = <<>>
    /\ out_lines' = <<>>
    /\ UNCHANGED <<path, filename, ext, route, pages, all_text, renders, ocrs,
                   slots, failures, ret, result>>

\* the next iteration of `for sheet_name in wb.sheetnames`
XlsxSheet ==
    /\ pc = "xlsx_loop"
    /\ Len(input) < MaxSheets
    /\ input' = Append(input, <<>>)
    /\ UNCHANGED <<path, filename, pc, ext, route, pages, all_text, renders,
                   ocrs, slots, failures, out_lines, ret, result>>

\* one iteration of `for row in ws.iter_rows(values_only=True)`
XlsxRow ==
    /\ pc = "xlsx_loop"
    /\ input # <<>>
    /\ TotalLen(input) < MaxRows
    /\ \E row \in Rows :
          /\ input' = [input EXCEPT ![Len(input)] = Append(@, row)]
          /\ out_lines' = out_lines \o RowLines(row)
    /\ UNCHANGED <<path, filename, pc, ext, route, pages, all_text, renders,
                   ocrs, slots, failures, ret, result>>

\* both loops are exhausted: the return
XlsxFinish ==
    /\ pc = "xlsx_loop"
    /\ ret' = Return(LinesResult(out_lines))
    /\ pc' = "returned"
    /\ UNCHANGED <<path, filename, ext, route, pages, all_text, renders, ocrs,
                   slots, failures, input, out_lines, result>>

\* load_workbook, or a later read of the workbook, raises: the except
XlsxRaises ==
    /\ pc \in {"spreadsheet", "xlsx_loop"}
    /\ ret' = Return(ExtractorErrorMessage(XlsxErrorPrefix, OpenCause))
    /\ failures' = {"extractor"}
    /\ pc' = "returned"
    /\ UNCHANGED <<path, filename, ext, route, pages, all_text, renders, ocrs,
                   slots, input, out_lines, result>>

\* prs = Presentation(path); out_lines = []
PptxOpen ==
    /\ pc = "presentation"
    /\ pc' = "pptx_loop"
    /\ input' = <<>>
    /\ out_lines' = <<>>
    /\ UNCHANGED <<path, filename, ext, route, pages, all_text, renders, ocrs,
                   slots, failures, ret, result>>

\* the next iteration of `for slide in prs.slides`
PptxSlide ==
    /\ pc = "pptx_loop"
    /\ Len(input) < MaxSlides
    /\ input' = Append(input, <<>>)
    /\ UNCHANGED <<path, filename, pc, ext, route, pages, all_text, renders,
                   ocrs, slots, failures, out_lines, ret, result>>

\* one iteration of `for shape in slide.shapes`
PptxShape ==
    /\ pc = "pptx_loop"
    /\ input # <<>>
    /\ TotalLen(input) < MaxShapes
    /\ \E sh \in Shapes :
          /\ input' = [input EXCEPT ![Len(input)] = Append(@, sh)]
          /\ out_lines' = out_lines \o ShapeLines(sh)
    /\ UNCHANGED <<path, filename, pc, ext, route, pages, all_text, renders,
                   ocrs, slots, failures, ret, result>>

\* both loops are exhausted: the return
PptxFinish ==
    /\ pc = "pptx_loop"
    /\ ret' = Return(LinesResult(out_lines))
    /\ pc' = "returned"
    /\ UNCHANGED <<path, filename, ext, route, pages, all_text, renders, ocrs,
                   slots, failures, input, out_lines, result>>

\* Presentation(path), or a later read of the deck, raises: the except
PptxRaises ==
    /\ pc \in {"presentation", "pptx_loop"}
    /\ ret' = Return(ExtractorErrorMessage(PptxErrorPrefix, OpenCause))
    /\ failures' = {"extractor"}
    /\ pc' = "returned"
    /\ UNCHANGED <<path, filename, ext, route, pages, all_text, renders, ocrs,
                   slots, input, out_lines, result>>

Next ==
    \/ Dispatch
    \/ DispatcherReturn
    \/ PdfOpen
    \/ PdfPage
    \/ PdfEnumerateRaises
    \/ PdfClose
    \/ ExtractImage
    \/ ExtractDocx
    \/ ExtractTxt
    \/ XlsxOpen
    \/ XlsxSheet
    \/ XlsxRow
    \/ XlsxFinish
    \/ XlsxRaises
    \/ PptxOpen
    \/ PptxSlide
    \/ PptxShape
    \/ PptxFinish
    \/ PptxRaises

Spec == Init /\ [][Next]_vars

(***************************************************************************)
(* The properties.  Each is stated from the documented behaviour, with the *)
(* expected texts written out, and read against the state above.           *)
(***************************************************************************)
\* the preferred name: the original name when one is given, else the path
Preferred == IF filename # None /\ filename[1] # <<>> THEN filename[1] ELSE path

IsText(s) == \A i \in 1..Len(s) : s[i] \in STRING

Bracketed(s) == s # <<>> /\ s[1] = "[" /\ s[Len(s)] = "]"

RECURSIVE Flatten(_)
Flatten(ss) == IF ss = <<>> THEN <<>> ELSE Head(ss) \o Flatten(Tail(ss))

BlankLine == <<"\n","\n">>
LineBreak == <<"\n">>

MappedExtensions ==
    { <<<<"p","d","f">>, "pdf">>,
      <<<<"j","p","g">>, "image">>, <<<<"j","p","e","g">>, "image">>,
      <<<<"p","n","g">>, "image">>, <<<<"b","m","p">>, "image">>,
      <<<<"t","i","f","f">>, "image">>,
      <<<<"d","o","c","x">>, "word">>, <<<<"d","o","c">>, "word">>,
      <<<<"t","x","t">>, "text">>,
      <<<<"x","l","s","x">>, "spreadsheet">>, <<<<"x","l","s">>, "spreadsheet">>,
      <<<<"p","p","t","x">>, "presentation">> }

\* the extension of a name as written: what follows the last "." of its
\* final component
ExtensionOf(name) == LStripDots(PathSuffix(name))

IsMapped(e) == \E m \in MappedExtensions : m[1] = e

TagOf(name) ==
    LET e == Lower(ExtensionOf(name))
    IN  IF IsMapped(e) THEN (CHOOSE m \in MappedExtensions : m[1] = e)[2]
        ELSE "unknown"

----------------------------------------------------------------------------
----------------------------------------------------------------------------
\* whether a step of page p raises, and the message of the first that does
PageFails(p) ==
    \/ p.text.kind = "raise"
    \/ /\ Strip(p.text.val) = <<>>
       /\ \/ p.pix.kind = "raise" \/ p.img.kind = "raise" \/ p.ocr.kind = "raise"

PageCause(p) ==
    IF p.text.kind = "raise" THEN p.text.val
    ELSE IF p.pix.kind = "raise" THEN p.pix.val
    ELSE IF p.img.kind = "raise" THEN p.img.val
    ELSE p.ocr.val

OcrMarker(k) == <<"[","P","a","g","e"," ">> \o IntToStr(k) \o <<" ","O","C","R","]">>

\* the fragments page number k contributes: its diagnostic when a step
\* raises, else its text, else its marked OCR text, else nothing
ExpectedSlot(p, k) ==
    IF PageFails(p)
    THEN << <<"[","E","r","r","o","r"," ","o","n"," ","p","a","g","e"," ">>
            \o IntToStr(k) \o <<":"," ">> \o PageCause(p) \o <<"]">> >>
    ELSE IF Strip(p.text.val) # <<>> THEN <<Strip(p.text.val)>>
    ELSE IF Strip(p.ocr.val) # <<>>
    THEN <<OcrMarker(k) \o LineBreak \o Strip(p.ocr.val)>>
    ELSE <<>>

\* C2: in extract_from_pdf a page whose step raises leaves
\* "[Error on page k: <cause>]" in its slot, every other page contributes
\* what it contributes on its own, the fragments stay in page order, and no
\* page failure makes the call fail: for any set of failing pages.
C2_PageFailureIsolated ==
    route = "pdf" =>
        /\ Len(slots) = Len(pages)
        /\ \A k \in 1..Len(pages) : slots[k] = ExpectedSlot(pages[k], k)
        /\ all_text = Flatten(slots)
        /\ ret.kind = "raise" => ret.val \in {EnumCause, CloseCause}
        /\ (pc = "done" /\ failures \subseteq {"page"}) =>
              result = Return(Join(Flatten(slots), BlankLine))

C2_Witness ==
    /\ pc = "done"
    /\ Len(pages) = 3
    /\ failures = {"page"}
    /\ PageFails(pages[2]) /\ pages[2].pix.kind = "raise"
    /\ ~PageFails(pages[1]) /\ slots[1] # <<>>
    /\ ~PageFails(pages[3]) /\ slots[3] # <<>>
    /\ result.kind = "return"

----------------------------------------------------------------------------
HasTextLayer(p) == p.text.kind = "return" /\ Strip(p.text.val) # <<>>

\* C3: a page with a non-empty stripped text layer is never rendered nor
\* OCRed; a PDF all of whose pages have one gets no OCR at all and yields the
\* pages' (stripped) texts joined by blank lines, in page order.
C3_TextLayerSkipsOcr ==
    route = "pdf" =>
        /\ \A k \in 1..Len(pages) :
              HasTextLayer(pages[k]) => k \notin renders /\ k \notin ocrs
        /\ ( /\ pc = "done"
             /\ failures = {}
             /\ \A k \in 1..Len(pages) : HasTextLayer(pages[k]) ) =>
              /\ ocrs = {}
              /\ result =
                    Return(Join([k \in 1..Len(pages) |-> Strip(pages[k].text.val)],
                                BlankLine))

C3_Witness ==
    /\ pc = "done"
    /\ route = "pdf"
    /\ failures = {}
    /\ Len(pages) >= 2
    /\ \A k \in 1..Len(pages) : HasTextLayer(pages[k])
    /\ \E k \in 1..Len(pages) : pages[k].text.val # Strip(pages[k].text.val)
    /\ result.val # <<>>

----------------------------------------------------------------------------
\* a page without text layer that renders, decodes and is OCRed without failure
OcrPage(p) ==
    /\ p.text.kind = "return" /\ Strip(p.text.val) = <<>>
    /\ p.pix.kind = "return" /\ p.img.kind = "return" /\ p.ocr.kind = "return"

\* C4 as claimed: every page N without text layer that renders without
\* failure outputs its OCR text prefixed with "[Page N OCR]".
C4_EveryOcrPageIsMarked ==
    \A k \in 1..Len(slots) :
        OcrPage(pages[k]) =>
            slots[k] = <<OcrMarker(k) \o LineBreak \o Strip(pages[k].ocr.val)>>

\* C4 as amended: such a page outputs "[Page N OCR]", a line break and the
\* stripped OCR text when that text is non-empty, N being the page's
\* position in the document; when the stripped OCR text is empty the page
\* outputs nothing, not even the marker.
C4_NonEmptyOcrPageIsMarked ==
    \A k \in 1..Len(slots) :
        OcrPage(pages[k]) =>
            IF Strip(pages[k].ocr.val) # <<>>
            THEN slots[k] = <<OcrMarker(k) \o LineBreak \o Strip(pages[k].ocr.val)>>
            ELSE slots[k] = <<>>

\* page 2 is OCRed and marked 2 although it is the first fragment emitted
C4_Witness ==
    /\ pc = "done"
    /\ Len(pages) >= 2
    /\ OcrPage(pages[1]) /\ slots[1] = <<>>
    /\ OcrPage(pages[2])
    /\ all_text # <<>>
    /\ all_text[1] = OcrMarker(2) \o LineBreak \o Strip(pages[2].ocr.val)
    /\ result.kind = "return" /\ result.val # <<>>

----------------------------------------------------------------------------
----------------------------------------------------------------------------
\* C6: the extractor chosen is the one the table gives for the lower-cased
\* extension of the preferred name; names that differ only in letter case
\* are routed alike; the path plays no part when an original name is given.
C6_RouteIsFunctionOfExtension ==
    route # "" =>
        /\ route = TagOf(Preferred)
        /\ (filename # None /\ filename[1] # <<>>) =>
              \A p \in Paths : RouteOf(Ext(Src(p, filename))) = route
        /\ \A n \in Names :
              Lower(n) = Lower(Preferred) => RouteOf(Ext(n)) = route

C6_Witness ==
    /\ pc = "done"
    /\ route = "spreadsheet"
    /\ filename = Some(<<"a",".","X","L","S">>)
    /\ path = <<"/","t","/","u",".","p","d","f">>

----------------------------------------------------------------------------
UnsupportedPrefix ==
    <<"[","U","n","s","u","p","p","o","r","t","e","d"," ","f","i","l","e"," ",
      "t","y","p","e",":"," ",".">>

NoExtractorRan ==
    /\ pc \in {"start", "done"}
    /\ input = <<>> /\ pages = <<>> /\ out_lines = <<>> /\ ret = Return(<<>>)

\* C7 as claimed: for a preferred name with an unmapped extension no
\* extractor runs and the text returned is "[Unsupported file type: .<ext>]",
\* <ext> being the extension of the preferred name.
C7_UnsupportedNamesExtension ==
    ~IsMapped(Lower(ExtensionOf(Preferred))) =>
        /\ NoExtractorRan
        /\ pc = "done" =>
              result = Return(UnsupportedPrefix \o ExtensionOf(Preferred) \o <<"]">>)

\* C7 as amended: <ext> is the extension of the preferred name in lower case.
C7_UnsupportedNamesLowerExtension ==
    ~IsMapped(Lower(ExtensionOf(Preferred))) =>
        /\ NoExtractorRan
        /\ pc = "done" =>
              result =
                  Return(UnsupportedPrefix \o Lower(ExtensionOf(Preferred)) \o <<"]">>)

C7_Witness ==
    /\ pc = "done"
    /\ filename = Some(<<"a",".","X","Y","Z">>)
    /\ result.val = UnsupportedPrefix \o <<"x","y","z","]">>

----------------------------------------------------------------------------
\* the lines of the rows of a worksheet, of the shapes of a slide
SheetLines(sheet) == Flatten([i \in 1..Len(sheet) |-> RowLines(sheet[i])])
SlideLines(slide) == Flatten([i \in 1..Len(slide) |-> ShapeLines(slide[i])])

\* the units that have lines, each as its lines joined by line breaks
UnitTexts(unit_lines) ==
    LET some == SelectSeq(unit_lines, LAMBDA ls : ls # <<>>)
    IN  [i \in 1..Len(some) |-> Join(some[i], LineBreak)]

WholeCallSucceeded == pc = "done" /\ failures = {}

\* C8 as claimed: the result is the per-unit results in order, pages,
\* worksheets and slides separated by a blank line, rows, shapes and
\* paragraphs by a line break.
C8_UnitsSeparatedByBlankLine ==
    WholeCallSucceeded =>
        /\ route = "pdf" => result.val = Strip(Join(Flatten(slots), BlankLine))
        /\ route = "spreadsheet" =>
              result.val =
                  Strip(Join(UnitTexts([i \in 1..Len(input) |-> SheetLines(input[i])]),
                             BlankLine))
        /\ route = "presentation" =>
              result.val =
                  Strip(Join(UnitTexts([i \in 1..Len(input) |-> SlideLines(input[i])]),
                             BlankLine))
        /\ route = "word" =>
              result.val = Strip(Join(SelectSeq(input, LAMBDA t : t # <<>>), LineBreak))

\* C8 as amended: the result is the per-unit results in order, trimmed as a
\* whole; only PDF pages are separated by a blank line; the rows of all
\* worksheets, the shapes of all slides and the paragraphs are separated by
\* a line break, with nothing more between worksheets or between slides.
C8_OnlyPagesSeparatedByBlankLine ==
    WholeCallSucceeded =>
        /\ route = "pdf" => result.val = Strip(Join(Flatten(slots), BlankLine))
        /\ route = "spreadsheet" =>
              result.val =
                  Strip(Join(Flatten([i \in 1..Len(input) |-> SheetLines(input[i])]),
                             LineBreak))
        /\ route = "presentation" =>
              result.val =
                  Strip(Join(Flatten([i \in 1..Len(input) |-> SlideLines(input[i])]),
                             LineBreak))
        /\ route = "word" =>
              result.val = Strip(Join(SelectSeq(input, LAMBDA t : t # <<>>), LineBreak))

C8_Witness ==
    /\ WholeCallSucceeded
    /\ route = "spreadsheet"
    /\ Len(input) = 2
    /\ SheetLines(input[1]) # <<>>
    /\ SheetLines(input[2]) # <<>>

----------------------------------------------------------------------------
CellCounts(c) == c.t # "none" /\ Strip(CellStr(c)) # <<>>

\* the line of a row: none when no cell counts, else the string forms of the
\* cells that count, joined by single spaces in column order
ExpectedRowLines(row) ==
    LET kept == SelectSeq(row, CellCounts)
    IN  IF kept = <<>> THEN <<>>
        ELSE <<Join([i \in 1..Len(kept) |-> CellStr(kept[i])], <<" ">>)>>

ExpectedSheetLines(sheet) ==
    Flatten([i \in 1..Len(sheet) |-> ExpectedRowLines(sheet[i])])

ExpectedWorkbookLines(wb) ==
    Flatten([i \in 1..Len(wb) |-> ExpectedSheetLines(wb[i])])

\* C9 as claimed: the output of extract_from_xlsx is made of exactly one
\* line per row that has a non-empty, non-whitespace-only cell (the string
\* forms of those cells, space-joined in column order) and of no line for
\* any other row, in row order within worksheets in workbook order.
C9_OutputIsTheRowLines ==
    (WholeCallSucceeded /\ route = "spreadsheet") =>
        result.val = Join(ExpectedWorkbookLines(input), LineBreak)

\* C9 as amended: those lines are what the rows contribute; they are joined
\* by line breaks and the whole is then trimmed, so that the first line
\* loses its leading and the last line its trailing whitespace.
C9_TrimmedOutputIsTheRowLines ==
    route = "spreadsheet" =>
        /\ out_lines = ExpectedWorkbookLines(input)
        /\ WholeCallSucceeded =>
              result.val = Strip(Join(ExpectedWorkbookLines(input), LineBreak))

\* a worksheet with an empty row between two rows that are not
C9_Witness ==
    /\ WholeCallSucceeded
    /\ route = "spreadsheet"
    /\ \E i \in 1..Len(input) :
          /\ Len(input[i]) = 3
          /\ ExpectedRowLines(input[i][1]) # <<>>
          /\ ExpectedRowLines(input[i][2]) = <<>>
          /\ ExpectedRowLines(input[i][3]) # <<>>
    /\ Len(out_lines) = 2

----------------------------------------------------------------------------
\* C10: no failure leaves extract_from_pdf as an exception, whether it
\* occurs on opening, on enumerating the pages, in a page's steps or on
\* closing; when the document cannot be opened the extractor returns the one
\* document-level diagnostic and processes no page.
C10_PdfCatchesOwnFailures ==
    route = "pdf" =>
        /\ ret.kind = "return"
        /\ "open" \in failures =>
              /\ pages = <<>>
              /\ ret.val =
                    <<"[","P","D","F"," ","o","p","e","n"," ","e","r","r","o","r",":"," ">>
                    \o OpenCause \o <<"]">>


====
